---- MODULE Spec2Model ----
(***************************************************************************)
(* The LangGraph RAG service of rag-chroma-db: the /chat handler (api.py)  *)
(* and the per-collection graph cache and two-node graph (rag.py).  Beside *)
(* it, the POST /ask handler of hr-agent (api.py), the evaluation target   *)
(* of langsmith-demo (eval.py) and the tools of employee-mcp (server.py),  *)
(* each with state of its own.                                             *)
(*                                                                         *)
(* One request is one coroutine on the server's event loop.  A coroutine   *)
(* runs without interruption between two suspension points, so one action  *)
(* is the code between two awaits:                                         *)
(*   Chat          api.py 50-53: the handler up to `await graph.ainvoke`,  *)
(*                 the synchronous get_graph call included                 *)
(*   Retrieve      rag.py 43-45: the retrieve node, normal return          *)
(*   RetrieveRaise rag.py 44:    retriever.invoke raises                   *)
(*   GenerateStart rag.py 47-58: the generate node up to the first chunk   *)
(*   LlmChunk      rag.py 58-61: one chunk of llm.astream                  *)
(*   LlmEnd        rag.py 63, api.py 54-57: the stream ends, the response  *)
(*   LlmRaise      rag.py 58:    llm.astream raises                        *)
(* Collection names are the numbers 1..n; texts are strings.               *)
(***************************************************************************)
EXTENDS Integers, Sequences, FiniteSets, TLC

VARIABLES
    cache,      \* lru_cache of get_graph: <<[key, pid]>>, least recently used first
    builds,     \* builds[k]: how often the body of get_graph ran for collection k
    evictions,  \* history: evictions[k]: how often k's entry was dropped by the cache
    lastUse,    \* history: lastUse[k]: clock of the last get_graph(k) call, 0 if none
    clock,      \* number of get_graph calls so far
    calls,      \* number of /chat requests handled in this behaviour
    req,        \* req[r]: the coroutine of request slot r
    hr,         \* hr-agent/api.py: the request of POST /ask
    _agent,     \* langsmith-demo/eval.py 116: the module global _agent
    target,     \* langsmith-demo/eval.py: the agent_target calls of one evaluate run
    tool        \* employee-mcp/server.py: the call of one MCP tool

vars == <<cache, builds, evictions, lastUse, clock, calls, req, hr, _agent, target, tool>>

(***************************************************************************)
(* Bounds of the model.  Spec explores the request pipeline in depth over  *)
(* few collections; SpecCache explores the cache over many collections     *)
(* with short streams.                                                     *)
(***************************************************************************)
NReq == 2            \* request slots: requests in flight at the same time
NKeys == 2           \* Spec: collection names
MaxCalls == 2        \* Spec: requests per behaviour
MaxChunks == 3       \* Spec: chunks of one language-model stream
CacheNKeys == 10     \* SpecCache: collection names
CacheMaxCalls == 3   \* SpecCache: requests per behaviour
CacheMaxChunks == 1  \* SpecCache: chunks of one language-model stream
FormatNKeys == 1     \* SpecFormat: collection names
FormatMaxCalls == 1  \* SpecFormat: requests per behaviour
FormatMaxDocs == 3   \* SpecFormat: passages the retriever returns
EnvNKeys == 2        \* SpecEnv: collection names
EnvMaxCalls == 2     \* SpecEnv: requests per behaviour
EnvMaxChunks == 2    \* SpecEnv: chunks of one language-model stream
InboundNKeys == 1    \* SpecInbound: collection names
InboundMaxCalls == 2 \* SpecInbound: /chat requests per behaviour
HrMaxCalls == 2      \* SpecInbound: /ask requests per behaviour
EvalExamples == 3    \* SpecEval: examples of the dataset
ToolMaxCalls == 2    \* SpecTools: tool calls per behaviour

Reqs == 1..NReq

\* rag.py 36: @lru_cache(maxsize=8)
maxsize == 8

\* api.py 9, rag.py 11: the collection used when the request names none
DEFAULT_COLLECTION == 1

\* Python's None, as a request's collection and as a missing metadata value
None == "<None>"

\* no compiled graph / no exception / no response yet
NoGraph == <<0, 0>>
NoError == ""
NoResult == [answer |-> None, sources |-> <<>>]

(***************************************************************************)
(* Documents.  metadata is a function from field names to values; a        *)
(* metadata of None and one of {} behave alike in `doc.metadata or {}`     *)
(* and are both the empty function.                                        *)
(***************************************************************************)
NoMeta == [f \in {} |-> None]
Doc1 == [page_content |-> "a", metadata |-> [source |-> "f1", chunk |-> "0", id |-> "i1"]]
Doc2 == [page_content |-> "b", metadata |-> [source |-> "f2"]]
Doc3 == [page_content |-> "c", metadata |-> NoMeta]
Doc4 == [page_content |-> "d\n\ne", metadata |-> [chunk |-> "1", page |-> "7"]]

\* what retriever.invoke may return (top-k, possibly nothing)
DocLists == {<<>>, <<Doc1, Doc2>>, <<Doc3, Doc1>>}
CacheDocLists == {<<Doc1, Doc2>>}
FormatDocLists == UNION {[1..n -> {Doc1, Doc2, Doc3, Doc4}] : n \in 0..FormatMaxDocs}

\* chunk.content of the chunks llm.astream may yield
ChunkContents == {"", "a", "b"}
CacheChunkContents == {"a"}

\* request.message (min_length=1)
Messages == {"q"}

\* the message of a request body as it arrives, before validation
InboundMessages == {"", " ", "q"}

\* api.py 24: message: str = Field(..., min_length=1)
ValidMessage(message) == Len(message) >= 1

\* exceptions of the collaborators
RetrieverErrors == {"ChromaError", "ConnectError"}
CacheRetrieverErrors == {"ConnectError"}
LlmErrors == {"APIError"}

\* dict.get(key, default)
MetaGet(meta, field, default) ==
    IF field \in DOMAIN meta THEN meta[field] ELSE default

\* "sep".join(parts)
RECURSIVE Join(_, _)
Join(sep, parts) ==
    IF parts = <<>> THEN ""
    ELSE IF Len(parts) = 1 THEN parts[1]
    ELSE parts[1] \o sep \o Join(sep, Tail(parts))

\* rag.py 32: one citation block
ContextBlockFromZero(idx, doc) ==
    "[" \o ToString(idx - 1) \o "] Source: "
        \o MetaGet(doc.metadata, "source", "unknown")
        \o "\n" \o doc.page_content
ContextBlock(idx, doc) ==
    "[" \o ToString(idx) \o "] Source: "
        \o MetaGet(doc.metadata, "source", "unknown")
        \o "\n" \o doc.page_content

\* rag.py 26-33
_format_context(docs) ==
    IF docs = <<>> THEN ""
    ELSE Join("\n\n", [idx \in 1..Len(docs) |-> ContextBlock(idx, docs[idx])])

\* rag.py 53: what the prompt shows in place of an empty context
NoContextMarker == "[no context retrieved]"

\* rag.py 51-54
UserPromptKeepsEmpty(question, context) ==
    "Question: " \o question \o "\n\n" \o "Context:\n" \o context
UserPrompt(question, context) ==
    "Question: " \o question \o "\n\n" \o "Context:\n"
        \o (IF context # "" THEN context ELSE "[no context retrieved]")

\* api.py 31-42
FormatSourcesFabricates(docs) ==
    [i \in 1..Len(docs) |->
        [source |-> MetaGet(docs[i].metadata, "source", "unknown"),
         chunk  |-> MetaGet(docs[i].metadata, "chunk", None),
         id     |-> MetaGet(docs[i].metadata, "id", None)]]
_format_sources(docs) ==
    [i \in 1..Len(docs) |->
        [source |-> MetaGet(docs[i].metadata, "source", None),
         chunk  |-> MetaGet(docs[i].metadata, "chunk", None),
         id     |-> MetaGet(docs[i].metadata, "id", None)]]

(***************************************************************************)
(* functools.lru_cache(maxsize=8) around get_graph.  A compiled graph is   *)
(* identified by <<collection, serial>>, serial being the number of the    *)
(* build that made it.                                                     *)
(***************************************************************************)
CachedKeys == {cache[i].key : i \in 1..Len(cache)}
CachedPids == {cache[i].pid : i \in 1..Len(cache)}

CacheIndex(c, key) == CHOOSE i \in 1..Len(c) : c[i].key = key

RemoveAt(c, i) == SubSeq(c, 1, i - 1) \o SubSeq(c, i + 1, Len(c))

\* the lookup of the wrapper: is there an entry for the key
CacheHasAlwaysMiss(c, key) == FALSE
CacheHas(c, key) == \E i \in 1..Len(c) : c[i].key = key

\* a hit moves the entry to the most recently used end
CacheTouchKeepOrder(c, key) == c
CacheTouch(c, key) ==
    LET i == CacheIndex(c, key) IN Append(RemoveAt(c, i), c[i])

\* a full cache drops an entry before the new one is linked in
CacheRoom(c) ==
    IF Len(c) >= maxsize THEN Tail(c) ELSE c

\* the key whose entry a miss drops, 0 if the cache has room
CacheVictim(c) ==
    LET left == CacheRoom(c)
        gone == {c[i].key : i \in 1..Len(c)} \ {left[i].key : i \in 1..Len(left)}
    IN IF gone = {} THEN 0 ELSE CHOOSE k \in gone : TRUE

\* after the call on a miss: an entry that is there by now is left alone, else
\* the new result is linked in at the most recently used end
CacheInsertForgets(c, key, pid) == c
CacheInsert(c, key, pid) ==
    IF \E i \in 1..Len(c) : c[i].key = key THEN c
    ELSE Append(CacheRoom(c), [key |-> key, pid |-> pid])

\* the compiled graph a call get_graph(key) returns
GraphReturned(c, b, key) ==
    IF CacheHas(c, key) THEN c[CacheIndex(c, key)].pid ELSE <<key, b[key] + 1>>

(***************************************************************************)
(* Requests.                                                               *)
(***************************************************************************)
\* request.collection when the client names none
NoCollection == 0

InFlight == {"retrieve", "generate", "stream"}
Terminal == {"done", "failed", "rejected"}

\* a slot whose request has not ended: in flight, inside the synchronous build
\* of get_graph, or waiting for a collaborator that will not answer
Busy == InFlight \cup {"building", "hung"}

IdleReq ==
    [pc |-> "idle", collection |-> 0, question |-> "", graph |-> NoGraph,
     built |-> FALSE, epoch |-> 0, evicted |-> FALSE,
     retrieved |-> <<>>, docs |-> <<>>,
     retrievedBy |-> NoGraph, generatedBy |-> NoGraph,
     context |-> "", prompt |-> "", nRetrieve |-> 0, nGenerate |-> 0, nLlm |-> 0,
     produced |-> <<>>, parts |-> <<>>, sink |-> <<>>,
     raised |-> NoError, error |-> NoError, result |-> NoResult,
     aborted |-> FALSE]

\* the graph object a running request works on: the handler's local `graph`
PipelineOfCacheLookup(r) ==
    IF CacheHas(cache, req[r].collection)
    THEN cache[CacheIndex(cache, req[r].collection)].pid ELSE NoGraph
PipelineOf(r) == req[r].graph

\* an exception of a node leaves graph.ainvoke and chat as it was raised
PropagateAsInternal(exc) == "InternalServerError"
PropagateSwallows(exc) == NoError
Propagate(exc) == exc

\* collections named so far; a new name is the next number
UsedKeys == {k \in DOMAIN lastUse : lastUse[k] > 0}
NextKeys(nkeys) == {k \in 1..nkeys : k = 1 \/ (k - 1) \in UsedKeys}

TypeOK ==
    /\ Len(cache) \in 0..(maxsize + 1)
    /\ clock \in Nat /\ calls \in Nat
    /\ \A r \in Reqs : req[r].pc \in {"idle"} \cup Busy \cup Terminal

\* api.py 51-53: get_graph(collection) returns its graph, from the cache or
\* newly built, and the handler awaits graph.ainvoke
GetGraph(r, given, message) ==
    LET collection == IF given # NoCollection THEN given ELSE DEFAULT_COLLECTION
        hit == CacheHas(cache, collection)
        graph == GraphReturned(cache, builds, collection)
        victim == IF hit THEN 0 ELSE CacheVictim(cache)
        gone == IF victim = 0 THEN NoGraph
                ELSE cache[CacheIndex(cache, victim)].pid
    IN /\ cache' = IF hit THEN CacheTouch(cache, collection)
                   ELSE CacheInsert(cache, collection, graph)
       /\ builds' = IF hit THEN builds
                    ELSE [builds EXCEPT ![collection] = @ + 1]
       /\ evictions' = IF victim = 0 THEN evictions
                       ELSE [evictions EXCEPT ![victim] = @ + 1]
       /\ lastUse' = [lastUse EXCEPT ![collection] = clock + 1]
       /\ clock' = clock + 1
       /\ req' = [q \in Reqs |->
            IF q = r
            THEN [IdleReq EXCEPT !.pc = "retrieve", !.collection = collection,
                                 !.question = message, !.graph = graph,
                                 !.built = ~hit, !.epoch = evictions[collection]]
            ELSE IF req[q].pc \in Busy /\ gone # NoGraph /\ req[q].graph = gone
            THEN [req[q] EXCEPT !.evicted = TRUE]
            ELSE req[q]]

\* api.py 23-25, 50-53: a body that passes the validation of ChatRequest, and
\* the handler up to the await of graph.ainvoke.  Slots and collection names
\* are interchangeable, so a new request takes the lowest free slot and names
\* a collection named before or the next new one.
ChatOf(r, nkeys, maxCalls, messages) ==
    /\ req[r].pc \in {"idle"} \cup Terminal
    /\ \A q \in Reqs : q < r => req[q].pc \in Busy
    /\ calls < maxCalls
    /\ calls' = calls + 1
    /\ \E given \in NextKeys(nkeys) \cup {NoCollection}, message \in messages :
        /\ ValidMessage(message)
        /\ GetGraph(r, given, message)
    /\ UNCHANGED <<hr, _agent, target, tool>>

\* api.py 50-53: the handler called with a message
Chat(r, nkeys, maxCalls) == ChatOf(r, nkeys, maxCalls, Messages)

\* api.py 23-25, 49-50: the body of a request fails the validation of
\* ChatRequest; FastAPI answers with its validation error and chat is not
\* called
ChatReject(r, maxCalls) ==
    /\ req[r].pc \in {"idle"} \cup Terminal
    /\ \A q \in Reqs : q < r => req[q].pc \in Busy
    /\ calls < maxCalls
    /\ calls' = calls + 1
    /\ \E message \in InboundMessages :
        /\ ~ValidMessage(message)
        /\ req' = [req EXCEPT ![r] =
                     [IdleReq EXCEPT !.pc = "rejected", !.question = message,
                                     !.error = "RequestValidationError"]]
    /\ UNCHANGED <<cache, builds, evictions, lastUse, clock, hr, _agent, target, tool>>

\* api.py 50-52, rag.py 38-41: the same handler seen while get_graph builds.
\* get_graph is a plain function called from the coroutine, so from the miss
\* to the return of the build the event loop runs nothing else.
ChatBuild(r, nkeys, maxCalls) ==
    /\ req[r].pc \in {"idle"} \cup Terminal
    /\ \A q \in Reqs : q < r => req[q].pc \in Busy
    /\ calls < maxCalls
    /\ calls' = calls + 1
    /\ \E given \in NextKeys(nkeys) \cup {NoCollection}, message \in Messages :
        LET collection == IF given # NoCollection THEN given ELSE DEFAULT_COLLECTION
        IN /\ ~CacheHas(cache, collection)
           /\ req' = [req EXCEPT ![r] =
                        [IdleReq EXCEPT !.pc = "building", !.collection = collection,
                                        !.question = message]]
    /\ UNCHANGED <<cache, builds, evictions, lastUse, clock, hr, _agent, target, tool>>

\* rag.py 38-74, api.py 53: the build returns, the graph is cached, the handler
\* awaits graph.ainvoke
BuildEnd(r) ==
    /\ req[r].pc = "building"
    /\ GetGraph(r, req[r].collection, req[r].question)
    /\ UNCHANGED <<calls, hr, _agent, target, tool>>

\* the event loop is not inside a synchronous call of a handler
LoopFree == \A q \in Reqs : req[q].pc # "building"

\* rag.py 44, 58: the collaborator the request waits for (the vector index in
\* retriever.invoke, the model in llm.astream) never answers.  Neither call
\* is given a deadline, so the request has no further step.
Hang(r) ==
    /\ req[r].pc \in {"retrieve", "stream"}
    /\ req' = [req EXCEPT ![r].pc = "hung"]
    /\ UNCHANGED <<cache, builds, evictions, lastUse, clock, calls, hr, _agent, target, tool>>

\* api.py 49-53: the client of a running request closes its connection.  chat
\* holds no handle on the connection and awaits graph.ainvoke to its end, so
\* the request goes on as before; aborted records that the client is gone.
Disconnect(r) ==
    /\ req[r].pc \in InFlight
    /\ ~req[r].aborted
    /\ req' = [req EXCEPT ![r].aborted = TRUE]
    /\ UNCHANGED <<cache, builds, evictions, lastUse, clock, calls, hr, _agent, target, tool>>

\* rag.py 45: the state update of the retrieve node, {"docs": docs}
RetrieveUpdateDropsFirst(docs) == IF docs = <<>> THEN docs ELSE Tail(docs)
RetrieveUpdate(docs) == docs

\* rag.py 43-45: the retrieve node returns
Retrieve(r, docLists) ==
    /\ req[r].pc = "retrieve"
    /\ \E docs \in docLists :
        req' = [req EXCEPT ![r].pc = "generate", ![r].retrieved = docs,
                           ![r].docs = RetrieveUpdate(docs),
                           ![r].retrievedBy = PipelineOf(r),
                           ![r].nRetrieve = @ + 1]
    /\ UNCHANGED <<cache, builds, evictions, lastUse, clock, calls, hr, _agent, target, tool>>

\* rag.py 44: retriever.invoke raises; nothing in rag.py or api.py catches it
RetrieveRaise(r, errors) ==
    /\ req[r].pc = "retrieve"
    /\ \E exc \in errors :
        req' = [req EXCEPT ![r].pc = "failed", ![r].raised = exc,
                           ![r].error = Propagate(exc),
                           ![r].retrievedBy = PipelineOf(r),
                           ![r].nRetrieve = @ + 1]
    /\ UNCHANGED <<cache, builds, evictions, lastUse, clock, calls, hr, _agent, target, tool>>

\* rag.py 47-58: the generate node up to the first chunk of llm.astream
GenerateStart(r) ==
    /\ req[r].pc = "generate"
    /\ req' = [req EXCEPT ![r].pc = "stream",
                          ![r].context = _format_context(req[r].docs),
                          ![r].prompt = UserPrompt(req[r].question,
                                                   _format_context(req[r].docs)),
                          ![r].generatedBy = PipelineOf(r),
                          ![r].nGenerate = @ + 1, ![r].nLlm = @ + 1]
    /\ UNCHANGED <<cache, builds, evictions, lastUse, clock, calls, hr, _agent, target, tool>>

\* rag.py 59-61: what one chunk adds to parts and hands to the writer
PartsAfterPrepend(parts, content) ==
    IF content # "" THEN <<content>> \o parts ELSE parts
\* a buffer kept on the graph instead of in the call: the longest of the
\* buffers of all requests
PartsAfterShared(parts, content) ==
    LET q == CHOOSE q \in Reqs :
                \A p \in Reqs : Len(req[p].parts) <= Len(req[q].parts)
    IN IF content # "" THEN Append(req[q].parts, content) ELSE parts
PartsAfter(parts, content) ==
    IF content # "" THEN Append(parts, content) ELSE parts

SinkAfterDropFirst(sink, content) ==
    IF content # "" /\ sink # <<>>
    THEN Append(sink, [type |-> "token", content |-> content]) ELSE sink
SinkAfterForwardsEmpty(sink, content) ==
    Append(sink, [type |-> "token", content |-> content])
SinkAfter(sink, content) ==
    IF content # "" THEN Append(sink, [type |-> "token", content |-> content])
    ELSE sink

\* rag.py 58-61: one chunk of the stream
LlmChunk(r, contents, maxChunks) ==
    /\ req[r].pc = "stream"
    /\ Len(req[r].produced) < maxChunks
    /\ \E content \in contents :
        req' = [req EXCEPT ![r].produced = Append(@, content),
                           ![r].parts = PartsAfter(@, content),
                           ![r].sink = SinkAfter(@, content)]
    /\ UNCHANGED <<cache, builds, evictions, lastUse, clock, calls, hr, _agent, target, tool>>

\* rag.py 63: the answer of the generate node
AnswerNoneWhenEmpty(parts) == IF parts = <<>> THEN None ELSE Join("", parts)
Answer(parts) == Join("", parts)

\* rag.py 63, api.py 54-57: the stream ends, the node returns, chat responds
LlmEnd(r) ==
    /\ req[r].pc = "stream"
    /\ req' = [req EXCEPT ![r].pc = "done",
                          ![r].result = [answer |-> Answer(req[r].parts),
                                         sources |-> _format_sources(req[r].docs)]]
    /\ UNCHANGED <<cache, builds, evictions, lastUse, clock, calls, hr, _agent, target, tool>>

\* rag.py 58: llm.astream raises; nothing in rag.py or api.py catches it
LlmRaise(r) ==
    /\ req[r].pc = "stream"
    /\ \E exc \in LlmErrors :
        req' = [req EXCEPT ![r].pc = "failed", ![r].raised = exc,
                           ![r].error = Propagate(exc)]
    /\ UNCHANGED <<cache, builds, evictions, lastUse, clock, calls, hr, _agent, target, tool>>

(***************************************************************************)
(* hr-agent/api.py: POST /ask.  One request at a time is followed.         *)
(***************************************************************************)
\* req.question as it arrives
HrQuestions == {"", " ", " \n\t", "q", " q "}

Whitespace == {" ", "\n", "\t"}

\* str.strip(): the text without the whitespace at its two ends
RECURSIVE StripLeft(_)
StripLeft(text) ==
    IF text # "" /\ SubSeq(text, 1, 1) \in Whitespace
    THEN StripLeft(SubSeq(text, 2, Len(text))) ELSE text

RECURSIVE StripRight(_)
StripRight(text) ==
    IF text # "" /\ SubSeq(text, Len(text), Len(text)) \in Whitespace
    THEN StripRight(SubSeq(text, 1, Len(text) - 1)) ELSE text

StripNothing(text) == text
Strip(text) == StripRight(StripLeft(text))

HrIdle == [pc |-> "idle", question |-> "", status |-> 0, asked |-> 0,
           answer |-> None, calls |-> 0]

\* hr-agent/api.py 27-30: the handler up to the HTTPException or to the await
\* of ask
AskQuestion(maxCalls) ==
    /\ hr.pc \in {"idle", "done", "failed", "rejected"}
    /\ hr.calls < maxCalls
    /\ \E question \in HrQuestions :
        hr' = IF Strip(question) = ""
              THEN [HrIdle EXCEPT !.pc = "rejected", !.question = question,
                                  !.status = 400, !.calls = hr.calls + 1]
              ELSE [HrIdle EXCEPT !.pc = "asking", !.question = question,
                                  !.asked = 1, !.calls = hr.calls + 1]
    /\ UNCHANGED <<cache, builds, evictions, lastUse, clock, calls, req, _agent, target, tool>>

\* hr-agent/api.py 30-31, agent.py 79-87: ask returns the agent's answer
AskReturn ==
    /\ hr.pc = "asking"
    /\ hr' = [hr EXCEPT !.pc = "done", !.status = 200, !.answer = "answer"]
    /\ UNCHANGED <<cache, builds, evictions, lastUse, clock, calls, req, _agent, target, tool>>

\* hr-agent/api.py 30, agent.py 79-87: ask raises; the handler does not catch
AskRaise ==
    /\ hr.pc = "asking"
    /\ hr' = [hr EXCEPT !.pc = "failed", !.status = 500]
    /\ UNCHANGED <<cache, builds, evictions, lastUse, clock, calls, req, _agent, target, tool>>

(***************************************************************************)
(* langsmith-demo/eval.py: evaluate() calls agent_target once per example, *)
(* max_concurrency of them at a time, each call on a thread of its pool.   *)
(* A thread can be switched out between any two of its reads and writes of *)
(* the global _agent.  An agent is the number of the create_agent call     *)
(* that made it.                                                           *)
(***************************************************************************)
\* eval.py 220
max_concurrency == 2

Workers == 1..max_concurrency

\* eval.py 116: _agent = None
NoAgent == 0

IdleThread == [pc |-> "idle", made |-> NoAgent, agent |-> NoAgent]

TargetIdle == [created |-> 0, todo |-> EvalExamples,
               thread |-> [w \in Workers |-> IdleThread], ranOn |-> {}]

\* eval.py 119: evaluate hands the next example to a free thread
TargetCall(w) ==
    /\ target.thread[w].pc = "idle"
    /\ target.todo > 0
    /\ target' = [target EXCEPT !.todo = @ - 1,
                                !.thread[w] = [IdleThread EXCEPT !.pc = "check"]]
    /\ UNCHANGED <<cache, builds, evictions, lastUse, clock, calls, req, hr, _agent, tool>>

\* eval.py 122: if _agent is None
TargetCheck(w) ==
    /\ target.thread[w].pc = "check"
    /\ target' = [target EXCEPT !.thread[w].pc =
                    IF _agent = NoAgent THEN "create" ELSE "load"]
    /\ UNCHANGED <<cache, builds, evictions, lastUse, clock, calls, req, hr, _agent, tool>>

\* eval.py 123: create_agent() returns a new agent
TargetCreate(w) ==
    /\ target.thread[w].pc = "create"
    /\ target' = [target EXCEPT !.created = @ + 1,
                                !.thread[w].made = target.created + 1,
                                !.thread[w].pc = "store"]
    /\ UNCHANGED <<cache, builds, evictions, lastUse, clock, calls, req, hr, _agent, tool>>

\* eval.py 123: _agent = <the new agent>
TargetStore(w) ==
    /\ target.thread[w].pc = "store"
    /\ _agent' = target.thread[w].made
    /\ target' = [target EXCEPT !.thread[w].pc = "load"]
    /\ UNCHANGED <<cache, builds, evictions, lastUse, clock, calls, req, hr, tool>>

\* eval.py 124: run_agent(_agent, ...) is called with the global as it is now
TargetRun(w) ==
    /\ target.thread[w].pc = "load"
    /\ target' = [target EXCEPT !.thread[w].agent = _agent,
                                !.thread[w].pc = "run",
                                !.ranOn = @ \cup {_agent}]
    /\ UNCHANGED <<cache, builds, evictions, lastUse, clock, calls, req, hr, _agent, tool>>

\* eval.py 124-125: run_agent returns, agent_target returns its output
TargetReturn(w) ==
    /\ target.thread[w].pc = "run"
    /\ target' = [target EXCEPT !.thread[w].pc = "idle"]
    /\ UNCHANGED <<cache, builds, evictions, lastUse, clock, calls, req, hr, _agent, tool>>

(***************************************************************************)
(* employee-mcp/server.py: the MCP tools.  Every tool is one call of _api, *)
(* and _api is one httpx.request to the employee API.  The call of one     *)
(* tool at a time is followed; what the backend answers is an input.       *)
(***************************************************************************)
\* server.py 26-98: the tools
Tools == {"list_employees", "get_employee", "search_employees",
          "list_departments", "get_employees_by_department",
          "get_salary_stats", "get_schema", "execute_query"}

\* resp.status_code of the responses the backend may give
Statuses == {200, 201, 302, 400, 404, 422, 500}

\* httpx: Response.is_success
IsSuccess(status) == status \in 200..299

\* Bodies of a response.  kind tells what resp.json() makes of the text: a
\* JSON object, a JSON list, or no JSON at all; detail is the value of the
\* object's "detail" key, None if it has none.
BodyDetail == [kind |-> "object", text |-> "{\"detail\": \"no such employee\"}",
               detail |-> "no such employee"]
BodyObject == [kind |-> "object", text |-> "{\"count\": 0}", detail |-> None]
BodyList == [kind |-> "list", text |-> "[]", detail |-> None]
BodyText == [kind |-> "text", text |-> "Bad Gateway", detail |-> None]
Bodies == {BodyDetail, BodyObject, BodyList, BodyText}

\* exceptions httpx.request raises when no response arrives
TransportErrors == {"ConnectError", "ReadTimeout"}

\* resp.json() of a body that is JSON
Decoded(body) == "json " \o body.text

Raised(exc, message) == [raised |-> exc, message |-> message, returned |-> None]
Returned(value) == [raised |-> NoError, message |-> "", returned |-> value]

\* server.py 18-21: what _api does with the response
ApiOutcomeReturnsOnError(status, body) ==
    IF status \in {400, 404} /\ body.kind = "object"
    THEN Raised("ValueError", IF body.detail # None THEN body.detail ELSE body.text)
    ELSE IF body.kind = "text" THEN Raised("JSONDecodeError", "Expecting value")
    ELSE Returned(Decoded(body))
ApiOutcome(status, body) ==
    IF status \in {400, 404}
    THEN IF body.kind = "text" THEN Raised("JSONDecodeError", "Expecting value")
         ELSE IF body.kind = "list" THEN Raised("AttributeError", "get")
         ELSE Raised("ValueError",
                     IF body.detail # None THEN body.detail ELSE body.text)
    ELSE IF ~IsSuccess(status) THEN Raised("HTTPStatusError", ToString(status))
    ELSE IF body.kind = "text" THEN Raised("JSONDecodeError", "Expecting value")
    ELSE Returned(Decoded(body))

NoStatus == 0
NoBody == [kind |-> "none", text |-> "", detail |-> None]

ToolIdle == [pc |-> "idle", name |-> "", sent |-> 0, status |-> NoStatus,
             body |-> NoBody, raised |-> NoError, message |-> "",
             returned |-> None, calls |-> 0]

\* server.py 26-98, 15-17: a tool is called, calls _api, and _api sends its
\* request
ToolCall(maxCalls) ==
    /\ tool.pc \in {"idle", "returned", "raised"}
    /\ tool.calls < maxCalls
    /\ \E name \in Tools :
        tool' = [ToolIdle EXCEPT !.pc = "request", !.name = name, !.sent = 1,
                                 !.calls = tool.calls + 1]
    /\ UNCHANGED <<cache, builds, evictions, lastUse, clock, calls, req, hr, _agent, target>>

\* server.py 17-21: the response arrives; _api raises or returns, and so does
\* the tool
ApiResponse ==
    /\ tool.pc = "request"
    /\ \E status \in Statuses, body \in Bodies :
        LET out == ApiOutcome(status, body)
        IN tool' = [tool EXCEPT !.pc = IF out.raised = NoError THEN "returned"
                                       ELSE "raised",
                                !.status = status, !.body = body,
                                !.raised = out.raised, !.message = out.message,
                                !.returned = out.returned]
    /\ UNCHANGED <<cache, builds, evictions, lastUse, clock, calls, req, hr, _agent, target>>

\* server.py 17: no response arrives; httpx.request raises and nothing
\* catches it
ApiTransportError ==
    /\ tool.pc = "request"
    /\ \E exc \in TransportErrors :
        tool' = [tool EXCEPT !.pc = "raised", !.raised = exc]
    /\ UNCHANGED <<cache, builds, evictions, lastUse, clock, calls, req, hr, _agent, target>>

(***************************************************************************)
(* Specifications.                                                         *)
(***************************************************************************)
\* a process that has served nothing yet
Cold(nkeys) ==
    /\ cache = <<>>
    /\ builds = [k \in 1..nkeys |-> 0]
    /\ evictions = [k \in 1..nkeys |-> 0]
    /\ lastUse = [k \in 1..nkeys |-> 0]
    /\ clock = 0
    /\ calls = 0
    /\ req = [r \in Reqs |-> IdleReq]
    /\ hr = HrIdle
    /\ _agent = NoAgent
    /\ target = TargetIdle
    /\ tool = ToolIdle

\* A process that was asked for the collections 1..maxsize once each, in this
\* order: the request for collection 1 is still waiting for its retriever, the
\* others were served one after the other by the next slot and the last of
\* them ended with the retriever's exception.
Full(nkeys) ==
    /\ cache = [i \in 1..maxsize |-> [key |-> i, pid |-> <<i, 1>>]]
    /\ builds = [k \in 1..nkeys |-> IF k <= maxsize THEN 1 ELSE 0]
    /\ evictions = [k \in 1..nkeys |-> 0]
    /\ lastUse = [k \in 1..nkeys |-> IF k <= maxsize THEN k ELSE 0]
    /\ clock = maxsize
    /\ calls = 0
    /\ req = [r \in Reqs |->
         IF r = 1
         THEN [IdleReq EXCEPT !.pc = "retrieve", !.collection = 1, !.question = "q",
                              !.graph = <<1, 1>>, !.built = TRUE]
         ELSE IF r = 2
         THEN [IdleReq EXCEPT !.pc = "failed", !.collection = maxsize,
                              !.question = "q", !.graph = <<maxsize, 1>>,
                              !.built = TRUE, !.retrievedBy = <<maxsize, 1>>,
                              !.nRetrieve = 1, !.raised = "ConnectError",
                              !.error = "ConnectError"]
         ELSE IdleReq]
    /\ hr = HrIdle
    /\ _agent = NoAgent
    /\ target = TargetIdle
    /\ tool = ToolIdle

\* a fresh process
Init == Cold(NKeys)

Next ==
    \E r \in Reqs :
        \/ Chat(r, NKeys, MaxCalls)
        \/ ChatReject(r, MaxCalls)
        \/ Retrieve(r, DocLists)
        \/ RetrieveRaise(r, RetrieverErrors)
        \/ GenerateStart(r)
        \/ LlmChunk(r, ChunkContents, MaxChunks)
        \/ LlmEnd(r)
        \/ LlmRaise(r)

Spec == Init /\ [][Next]_vars

\* a fresh process, or one whose cache has just become full
InitCache == Cold(CacheNKeys) \/ Full(CacheNKeys)

NextCache ==
    \E r \in Reqs :
        \/ Chat(r, CacheNKeys, CacheMaxCalls)
        \/ Retrieve(r, CacheDocLists)
        \/ RetrieveRaise(r, CacheRetrieverErrors)
        \/ GenerateStart(r)
        \/ LlmChunk(r, CacheChunkContents, CacheMaxChunks)
        \/ LlmEnd(r)
        \/ LlmRaise(r)

SpecCache == InitCache /\ [][NextCache]_vars

\* the two formatters over every passage sequence the retriever may return:
\* requests served one after the other, whose generate node formats the
\* context and whose response formats the sources
InitFormat == Cold(FormatNKeys)

NextFormat ==
    \E r \in Reqs :
        \/ Chat(r, FormatNKeys, FormatMaxCalls) /\ \A q \in Reqs : req[q].pc \notin Busy
        \/ Retrieve(r, FormatDocLists)
        \/ GenerateStart(r)
        \/ LlmEnd(r)

SpecFormat == InitFormat /\ [][NextFormat]_vars

\* The service with its surroundings: builds that take time, collaborators
\* that never answer, clients that go away.  A request steps only while the
\* event loop is free.
InitEnv == Cold(EnvNKeys)

\* the steps of request r the event loop runs
StepOf(r) ==
    \/ LoopFree /\ Retrieve(r, CacheDocLists)
    \/ LoopFree /\ RetrieveRaise(r, CacheRetrieverErrors)
    \/ LoopFree /\ GenerateStart(r)
    \/ LoopFree /\ LlmChunk(r, CacheChunkContents, EnvMaxChunks)
    \/ LoopFree /\ LlmEnd(r)
    \/ LoopFree /\ LlmRaise(r)

\* A request for a cached collection is served as in Spec; one for an uncached
\* collection is seen entering the build and leaving it.
NextEnv ==
    \E r \in Reqs :
        \/ LoopFree /\ Chat(r, EnvNKeys, EnvMaxCalls) /\ ~req'[r].built
        \/ LoopFree /\ ChatBuild(r, EnvNKeys, EnvMaxCalls)
        \/ BuildEnd(r)
        \/ StepOf(r)
        \/ LoopFree /\ Hang(r)
        \/ LoopFree /\ Disconnect(r)

SpecEnv == InitEnv /\ [][NextEnv]_vars

\* the two inbound layers: request bodies of any content at POST /chat and at
\* POST /ask
InitInbound == Cold(InboundNKeys)

NextInbound ==
    \/ \E r \in Reqs :
        \/ ChatOf(r, InboundNKeys, InboundMaxCalls, InboundMessages)
        \/ ChatReject(r, InboundMaxCalls)
        \/ Retrieve(r, CacheDocLists)
        \/ GenerateStart(r)
        \/ LlmEnd(r)
    \/ AskQuestion(HrMaxCalls)
    \/ AskReturn
    \/ AskRaise

SpecInbound == InitInbound /\ [][NextInbound]_vars

\* one evaluate run over the dataset
InitEval == Cold(NKeys)

NextEval ==
    \E w \in Workers :
        \/ TargetCall(w)
        \/ TargetCheck(w)
        \/ TargetCreate(w)
        \/ TargetStore(w)
        \/ TargetRun(w)
        \/ TargetReturn(w)

SpecEval == InitEval /\ [][NextEval]_vars

\* tool calls against a backend that may answer anything, or not at all
InitTools == Cold(NKeys)

NextTools ==
    \/ ToolCall(ToolMaxCalls)
    \/ ApiResponse
    \/ ApiTransportError

SpecTools == InitTools /\ [][NextTools]_vars

(***************************************************************************)
(* Properties.                                                             *)
(***************************************************************************)
\* the step in which slot r takes a new request and calls get_graph
IsChatStep(r) == calls' = calls + 1 /\ req'[r].pc = "retrieve" /\ req'[r].nRetrieve = 0
                    /\ req[r].pc \in {"idle"} \cup Terminal

\* the non-empty contents among the chunks the model produced, in order
NonEmpty(chunks) == SelectSeq(chunks, LAMBDA c : c # "")

\* the contents of the events the writer was handed, in order
SinkContents(sink) == [i \in 1..Len(sink) |-> sink[i].content]

\* C1: requests in flight at the same time for the same collection, with no
\* eviction of that collection between their get_graph calls, hold the same
\* compiled graph, and at most one of them built it: one construction for any
\* number of concurrent callers of an uncached key.
C1_SingleFlight ==
    \A r1, r2 \in Reqs :
        (/\ r1 # r2
         /\ req[r1].pc \in InFlight /\ req[r2].pc \in InFlight
         /\ req[r1].collection = req[r2].collection
         /\ req[r1].epoch = req[r2].epoch)
        => /\ req[r1].graph = req[r2].graph
           /\ req[r1].graph # NoGraph
           /\ ~(req[r1].built /\ req[r2].built)

\* two requests in flight for one collection that was not cached when the first
\* of them arrived: one built the graph, the other got the same one
C1_Witness ==
    \E r1, r2 \in Reqs :
        /\ r1 # r2
        /\ req[r1].pc \in InFlight /\ req[r2].pc \in InFlight
        /\ req[r1].collection = req[r2].collection
        /\ req[r1].built /\ ~req[r2].built
        /\ req[r1].graph = req[r2].graph
        /\ builds[req[r1].collection] = 1
        /\ clock = 2

\* C2: a get_graph call that follows a finished request for the same collection,
\* with no eviction of that collection in between, returns the graph the
\* finished request had and builds nothing.
C2_SequentialHit ==
    [][\A r1, r2 \in Reqs :
        (/\ req[r1].pc \in Terminal
         /\ IsChatStep(r2)
         /\ req'[r2].collection = req[r1].collection
         /\ req'[r2].epoch = req[r1].epoch)
        => /\ req'[r2].graph = req[r1].graph
           /\ ~req'[r2].built
           /\ builds' = builds]_vars

\* the second of two requests for the default collection, one after the other
\* on the same slot: it runs on the graph of the first build
C2_Witness ==
    /\ calls = 2
    /\ req[1].pc = "retrieve" /\ req[1].collection = DEFAULT_COLLECTION
    /\ ~req[1].built /\ req[1].graph = <<DEFAULT_COLLECTION, 1>>
    /\ req[2].pc = "idle"
    /\ builds[DEFAULT_COLLECTION] = 1

\* C3 as stated: a graph that was built for a collection is never built a second
\* time; the code has no invalidate or clear call that would allow one.
C3_NeverRebuilt ==
    [][\A k \in DOMAIN builds : builds[k] >= 1 => builds'[k] = builds[k]]_vars

\* C3 as amended: a collection's graph is built again only after its entry was
\* evicted from the cache: the number of builds of a collection is at most one
\* more than the number of evictions of its entry, and it is exactly that for a
\* collection in the cache; every request runs on the graph built after the
\* last eviction of its collection before its get_graph call, so requests with
\* no eviction between them share one graph.
C3_RebuiltOnlyAfterEviction ==
    /\ \A k \in DOMAIN builds :
        /\ builds[k] <= evictions[k] + 1
        /\ k \in CachedKeys => builds[k] = evictions[k] + 1
    /\ \A r \in Reqs :
        req[r].graph # NoGraph
        => req[r].graph = <<req[r].collection, req[r].epoch + 1>>

\* a collection that was evicted and then requested again runs on its second graph
C3_Witness ==
    \E k \in DOMAIN builds, r \in Reqs :
        /\ builds[k] = 2 /\ evictions[k] = 1
        /\ req[r].collection = k /\ req[r].graph = <<k, 2>> /\ req[r].built

\* C4: the cache never holds more than maxsize entries, an entry is removed only
\* by a miss on a full cache, and the entry removed is the one whose last
\* get_graph call (hit or miss) is the oldest.
C4_BoundedLru ==
    /\ [](Len(cache) <= maxsize)
    /\ [][\A k \in CachedKeys :
            k \notin CachedKeys'
            => /\ Len(cache) = maxsize
               /\ \E r \in Reqs : IsChatStep(r) /\ req'[r].built
               /\ \A j \in CachedKeys : lastUse[k] <= lastUse[j]]_vars

\* a full cache has dropped collection 2 and kept collection 1, which was
\* inserted before it and used again after it
C4_Witness ==
    /\ Len(cache) = maxsize
    /\ evictions[2] = 1 /\ 2 \notin CachedKeys
    /\ 1 \in CachedKeys /\ evictions[1] = 0 /\ builds[1] = 1

\* C5: a request whose graph was evicted while the request was in flight goes
\* on with the graph it obtained: its retriever and its generator are those of
\* that graph, and its response is the one its own documents and chunks give.
C5_EvictedInFlight ==
    \A r \in Reqs :
        req[r].evicted
        => /\ req[r].graph # NoGraph
           /\ req[r].graph[1] = req[r].collection
           /\ req[r].nRetrieve > 0 => req[r].retrievedBy = req[r].graph
           /\ req[r].nGenerate > 0 => req[r].generatedBy = req[r].graph
           /\ req[r].pc = "done"
              => req[r].result = [answer |-> Join("", NonEmpty(req[r].produced)),
                                  sources |-> _format_sources(req[r].retrieved)]

\* a request answered on a graph that left the cache while the request ran
C5_Witness ==
    \E r \in Reqs :
        /\ req[r].evicted /\ req[r].pc = "done"
        /\ req[r].graph \notin CachedPids
        /\ req[r].result.answer = "a"
        /\ Len(req[r].result.sources) = 2

\* invalidate(key): the entry of key leaves the cache, the others stay as they are
InvalidateStep(k) ==
    /\ Next
    /\ cache' = SelectSeq(cache, LAMBDA e : e.key # k)

\* clear(): every entry leaves the cache
ClearStep ==
    /\ Next
    /\ cache' = <<>>

\* C6: the cache offers invalidate(key) and clear(): whenever it holds entries,
\* a step that removes just one of them, and a step that removes all of them,
\* are possible.
C6_InvalidateAndClearOffered ==
    cache # <<>>
    => /\ \A k \in CachedKeys : ENABLED InvalidateStep(k)
       /\ ENABLED ClearStep

\* C7: per request the retriever is called once, the generate node starts at
\* most once and only after the retrieve node has returned, the model is
\* called at most once, and the prompt is built from the documents the
\* retriever returned.
C7_RetrieveThenGenerate ==
    \A r \in Reqs :
        /\ req[r].nRetrieve <= 1 /\ req[r].nGenerate <= 1 /\ req[r].nLlm <= 1
        /\ req[r].pc = "retrieve" => req[r].nRetrieve = 0 /\ req[r].nGenerate = 0
        /\ req[r].pc = "generate" => req[r].nRetrieve = 1 /\ req[r].nGenerate = 0
        /\ req[r].pc \in {"stream", "done"}
           => req[r].nRetrieve = 1 /\ req[r].nGenerate = 1 /\ req[r].nLlm = 1
        /\ req[r].nGenerate = 1
           => /\ req[r].nRetrieve = 1
              /\ req[r].raised \notin RetrieverErrors
              /\ req[r].prompt =
                    UserPrompt(req[r].question, _format_context(req[r].retrieved))
        /\ req[r].pc = "done"
           => req[r].result.sources = _format_sources(req[r].retrieved)

\* a finished request whose prompt cites the two retrieved documents in order
C7_Witness ==
    \E r \in Reqs :
        /\ req[r].pc = "done"
        /\ req[r].retrieved = <<Doc1, Doc2>>
        /\ req[r].prompt = "Question: q\n\nContext:\n[1] Source: f1\na\n\n[2] Source: f2\nb"
        /\ req[r].nRetrieve = 1 /\ req[r].nGenerate = 1

\* C8: a request whose retriever raised has ended with that exception, has not
\* started the generate node, has not called the model, has handed nothing to
\* the writer and has no response.
C8_RetrievalFailure ==
    \A r \in Reqs :
        req[r].raised \in RetrieverErrors
        => /\ req[r].pc = "failed"
           /\ req[r].error = req[r].raised
           /\ req[r].nGenerate = 0 /\ req[r].nLlm = 0
           /\ req[r].produced = <<>> /\ req[r].sink = <<>>
           /\ req[r].result = NoResult

\* a request that ended with the retriever's exception
C8_Witness ==
    \E r \in Reqs :
        /\ req[r].pc = "failed" /\ req[r].raised = "ChromaError"
        /\ req[r].error = "ChromaError" /\ req[r].nRetrieve = 1

\* C9: a request whose model stream raised has ended with that exception and
\* without a response, and the writer holds one token event for every non-empty
\* chunk the model had produced, in the order of production.
C9_GenerationFailure ==
    /\ [](\A r \in Reqs :
            req[r].raised \in LlmErrors
            => /\ req[r].pc = "failed"
               /\ req[r].error = req[r].raised
               /\ req[r].result = NoResult
               /\ SinkContents(req[r].sink) = NonEmpty(req[r].produced)
               /\ \A i \in 1..Len(req[r].sink) : req[r].sink[i].type = "token")
    /\ [][\A r \in Reqs :
            (req[r].pc = "stream" /\ req'[r].pc \in {"stream", "failed"})
            => /\ Len(req'[r].sink) >= Len(req[r].sink)
               /\ SubSeq(req'[r].sink, 1, Len(req[r].sink)) = req[r].sink]_vars

\* a stream that raised after three chunks had reached the writer
C9_Witness ==
    \E r \in Reqs :
        /\ req[r].pc = "failed" /\ req[r].raised \in LlmErrors
        /\ SinkContents(req[r].sink) = <<"a", "b", "a">>

\* C10: the answer of a finished request is the concatenation, in order, of the
\* contents the writer was handed, and those are the non-empty chunks of the
\* model in the order it produced them.
C10_AnswerIsStream ==
    \A r \in Reqs :
        /\ req[r].pc = "done"
           => req[r].result.answer = Join("", SinkContents(req[r].sink))
        /\ req[r].pc \in {"stream", "done"}
           => SinkContents(req[r].sink) = NonEmpty(req[r].produced)

\* a finished request whose two different chunks make up the answer in order
C10_Witness ==
    \E r \in Reqs :
        /\ req[r].pc = "done"
        /\ req[r].produced = <<"a", "b">>
        /\ req[r].result.answer = "ab"
        /\ Len(req[r].sink) = 2

\* C11: a request whose model stream ended without having produced a chunk
\* has finished with a response whose answer is the empty string, without an
\* exception, and the writer was handed no event.
C11_EmptyStream ==
    \A r \in Reqs :
        /\ (req[r].pc = "stream" /\ req[r].produced = <<>>) => req[r].sink = <<>>
        /\ (req[r].pc \in Terminal /\ req[r].nLlm = 1 /\ req[r].produced = <<>>
                /\ req[r].raised = NoError)
           => /\ req[r].pc = "done"
              /\ req[r].result # NoResult
              /\ req[r].result.answer = ""
              /\ req[r].sink = <<>>
              /\ req[r].error = NoError

\* a request that finished on a stream of no chunk, with passages retrieved
C11_Witness ==
    \E r \in Reqs :
        /\ req[r].pc = "done" /\ req[r].nLlm = 1 /\ req[r].produced = <<>>
        /\ req[r].retrieved # <<>> /\ req[r].result.answer = ""

\* the first position at or after `from` where pat occurs in text, 0 if none
RECURSIVE Find(_, _, _)
Find(text, pat, from) ==
    IF from + Len(pat) - 1 > Len(text) THEN 0
    ELSE IF SubSeq(text, from, from + Len(pat) - 1) = pat THEN from
    ELSE Find(text, pat, from + 1)

\* the citation blocks of a context whose first block is numbered idx: a
\* block ends where a blank line and the header of the next number follow
RECURSIVE CitationBlocks(_, _)
CitationBlocks(text, idx) ==
    LET at == Find(text, "\n\n[" \o ToString(idx + 1) \o "] Source: ", 1)
    IN IF at = 0 THEN <<text>>
       ELSE <<SubSeq(text, 1, at - 1)>>
                \o CitationBlocks(SubSeq(text, at + 2, Len(text)), idx + 1)

\* a citation block read back: "[" index "] Source: " label, newline, content
BlockIndex(block) == SubSeq(block, 2, Find(block, "] Source: ", 1) - 1)
BlockLabel(block) ==
    SubSeq(block, Find(block, "] Source: ", 1) + Len("] Source: "),
           Find(block, "\n", 1) - 1)
BlockContent(block) == SubSeq(block, Find(block, "\n", 1) + 1, Len(block))

\* C12: the context formatted for n >= 1 retrieved passages reads back as
\* exactly n citation blocks; block i is numbered i, is labelled with the source
\* of passage i, or "unknown" if the passage has none, and carries the content
\* of passage i.
C12_CitationBlocks ==
    \A r \in Reqs :
        (req[r].nGenerate = 1 /\ req[r].retrieved # <<>>)
        => LET passages == req[r].retrieved
               blocks == CitationBlocks(req[r].context, 1)
           IN /\ Len(blocks) = Len(passages)
              /\ \A i \in 1..Len(passages) :
                    /\ Head(blocks[i]) = "["
                    /\ BlockIndex(blocks[i]) = ToString(i)
                    /\ BlockLabel(blocks[i]) =
                          (IF "source" \in DOMAIN passages[i].metadata
                           THEN passages[i].metadata.source ELSE "unknown")
                    /\ BlockContent(blocks[i]) = passages[i].page_content

\* three passages formatted: one with a source, one without metadata, one with
\* metadata but no source and a blank line in its content
C12_Witness ==
    \E r \in Reqs :
        /\ req[r].nGenerate = 1
        /\ req[r].retrieved = <<Doc2, Doc3, Doc4>>
        /\ Len(CitationBlocks(req[r].context, 1)) = 3

\* C14: the sources of a response are one record per retrieved passage, in the
\* retriever's order; a record has the fields source, chunk and id and no
\* other, each the value of that field in the passage's metadata, or None if
\* the metadata has no such field.
C14_SourceRecords ==
    \A r \in Reqs :
        req[r].pc = "done"
        => LET passages == req[r].retrieved
               sources == req[r].result.sources
           IN /\ Len(sources) = Len(passages)
              /\ \A i \in 1..Len(passages) :
                    /\ DOMAIN sources[i] = {"source", "chunk", "id"}
                    /\ \A f \in {"source", "chunk", "id"} :
                          sources[i][f] =
                            (IF f \in DOMAIN passages[i].metadata
                             THEN passages[i].metadata[f] ELSE None)

\* a response for three passages: no metadata, a field besides the three, all
\* three fields
C14_Witness ==
    \E r \in Reqs :
        /\ req[r].pc = "done"
        /\ req[r].retrieved = <<Doc3, Doc4, Doc1>>
        /\ req[r].result.sources[1].source = None
        /\ req[r].result.sources[2].chunk = "1"
        /\ req[r].result.sources[3].id = "i1"

\* the last n characters of text, all of it if it is shorter
Suffix(text, n) ==
    IF n >= Len(text) THEN text ELSE SubSeq(text, Len(text) - n + 1, Len(text))

C15_DeadlineEndsWait ==
    \A r \in Reqs :
        req[r].pc = "hung" => ENABLED (NextEnv /\ req'[r].pc = "failed")

\* C16: once the client of a request has gone away, no further chunk of the
\* model is consumed and no further event is handed to the writer for that
\* request, and the step in which the client goes away leaves the cache as
\* it was.
C16_AbortStopsStream ==
    [][\A r \in Reqs :
        /\ (req[r].aborted /\ req'[r].aborted)
           => /\ req'[r].produced = req[r].produced
              /\ req'[r].sink = req[r].sink
        /\ (~req[r].aborted /\ req'[r].aborted) => cache' = cache]_vars

\* C18: while a request waits for the vector index or for the next chunk of
\* the model, or is building the graph of a collection, every other request
\* in flight can take its next step.
C18_WaitingBlocksNobody ==
    \A r1, r2 \in Reqs :
        (r1 # r2 /\ req[r1].pc \in {"retrieve", "stream", "building", "hung"}
            /\ req[r2].pc \in InFlight)
        => ENABLED StepOf(r2)

\* the kinds of failure a request that ended without a response shows: by
\* the place its exception came from
FailureKinds(r) ==
    {k \in {"RetrievalError", "GenerationError", "ValidationError"} :
        \/ /\ k = "RetrievalError"
           /\ req[r].error \in RetrieverErrors
           /\ req[r].nRetrieve = 1 /\ req[r].nGenerate = 0
        \/ /\ k = "GenerationError"
           /\ req[r].error \in LlmErrors
           /\ req[r].nRetrieve = 1 /\ req[r].nGenerate = 1
        \/ /\ k = "ValidationError"
           /\ req[r].error = "RequestValidationError"
           /\ req[r].nRetrieve = 0 /\ req[r].nGenerate = 0}

C19_AgentCreatedOnce ==
    /\ target.created <= 1
    /\ Cardinality(target.ranOn) <= 1
    /\ target.ranOn # {} => target.created = 1

\* text that is empty or made of whitespace only
Blank(text) == \A i \in 1..Len(text) : SubSeq(text, i, i) \in Whitespace

\* C20: a POST /ask whose question is empty or whitespace only has ended with
\* status 400 and without a call of ask; a POST /chat whose message is empty
\* has been turned away by validation without a graph, a retrieval or a
\* generation, and the step that turns it away calls get_graph not at all.
C20_EmptyQuestionsRejected ==
    /\ [](/\ (hr.pc # "idle" /\ Blank(hr.question))
             => hr.pc = "rejected" /\ hr.status = 400 /\ hr.asked = 0
          /\ \A r \in Reqs :
                (req[r].pc # "idle" /\ req[r].question = "")
                => /\ req[r].pc = "rejected"
                   /\ req[r].error = "RequestValidationError"
                   /\ req[r].graph = NoGraph
                   /\ req[r].nRetrieve = 0 /\ req[r].nGenerate = 0
                   /\ req[r].nLlm = 0)
    /\ [][\A r \in Reqs :
            (req'[r] # req[r] /\ req'[r].pc = "rejected")
            => clock' = clock /\ cache' = cache /\ builds' = builds]_vars

\* a whitespace-only question answered with 400 and an empty message turned
\* away, next to a question and a message that were served
C20_Witness ==
    /\ hr.pc = "rejected" /\ hr.question = " \n\t" /\ hr.status = 400
    /\ hr.calls = 2
    /\ \E r1, r2 \in Reqs :
        /\ req[r1].pc = "rejected" /\ req[r1].question = ""
        /\ req[r2].pc = "done" /\ req[r2].question = " "

\* a request without the mark that its graph was dropped from the cache
Own(rec) == [rec EXCEPT !.evicted = FALSE]

\* C22: requests in any interleaving stay apart.  The answer of a finished
\* request is made of the chunks of its own stream and its sources of its
\* own retrieval; a step that changes one request leaves every other request
\* as it was; and a step of a request past its get_graph call leaves the cache
\* of graphs as it was.
C22_RequestsIsolated ==
    /\ [](\A r \in Reqs :
            /\ req[r].pc \in {"stream", "done"}
               => /\ req[r].parts = NonEmpty(req[r].produced)
                  /\ req[r].docs = req[r].retrieved
            /\ req[r].pc = "done"
               => /\ req[r].result.answer = Join("", NonEmpty(req[r].produced))
                  /\ Len(req[r].result.sources) = Len(req[r].retrieved)
                  /\ \A i \in 1..Len(req[r].retrieved) :
                        req[r].result.sources[i].source =
                            MetaGet(req[r].retrieved[i].metadata, "source", None))
    /\ [][\A r1, r2 \in Reqs :
            (r1 # r2 /\ Own(req'[r1]) # Own(req[r1]))
            => /\ Own(req'[r2]) = Own(req[r2])
               /\ req[r1].pc \in InFlight => cache' = cache]_vars

\* two requests streaming at the same time, each with its own passages and
\* its own chunks so far
C22_Witness ==
    \E r1, r2 \in Reqs :
        /\ req[r1].pc = "stream" /\ req[r2].pc = "stream"
        /\ req[r1].retrieved = <<Doc1, Doc2>> /\ req[r2].retrieved = <<Doc3, Doc1>>
        /\ req[r1].parts = <<"a", "b">> /\ req[r2].parts = <<"b", "a">>

\* C23: a chunk of empty content reaches neither the writer nor the buffer: the
\* step that takes it leaves both as they were.  So the writer holds as many
\* events as the model produced non-empty chunks, and whenever generation is
\* suspended the contents of the events so far, joined, are the buffer so far,
\* joined.
C23_EmptyChunksSkipped ==
    /\ [](\A r \in Reqs :
            req[r].nLlm = 1
            => /\ Len(req[r].sink) = Len(NonEmpty(req[r].produced))
               /\ Len(req[r].parts) = Len(req[r].sink)
               /\ Join("", SinkContents(req[r].sink)) = Join("", req[r].parts)
               /\ \A i \in 1..Len(req[r].sink) : req[r].sink[i].content # "")
    /\ [][\A r \in Reqs :
            (req[r].pc = "stream" /\ req'[r].produced = Append(req[r].produced, ""))
            => /\ req'[r].sink = req[r].sink
               /\ req'[r].parts = req[r].parts]_vars

\* a stream suspended after an empty chunk between two non-empty ones
C23_Witness ==
    \E r \in Reqs :
        /\ req[r].pc = "stream"
        /\ req[r].produced = <<"a", "", "b">>
        /\ Len(req[r].sink) = 2 /\ req[r].parts = <<"a", "b">>

\* exceptions that are instances of ValueError
IsValueError(exc) == exc \in {"ValueError", "JSONDecodeError"}

\* C21 as stated: a tool call that has ended sent one request and ended in one
\* of three ways: on status 400 or 404 with a ValueError carrying the detail
\* of the response, on any other status that is not a success with the HTTP
\* status error, on a success status with the decoded body as its value.
C21_ThreeOutcomes ==
    tool.pc \in {"returned", "raised"}
    => /\ tool.sent = 1
       /\ \/ /\ tool.status \in {400, 404}
             /\ tool.pc = "raised" /\ IsValueError(tool.raised)
             /\ tool.body.detail # None /\ tool.message = tool.body.detail
          \/ /\ tool.status \in Statuses \ {400, 404} /\ ~IsSuccess(tool.status)
             /\ tool.pc = "raised" /\ tool.raised = "HTTPStatusError"
          \/ /\ IsSuccess(tool.status)
             /\ tool.pc = "returned" /\ tool.returned = Decoded(tool.body)

\* C21 as the code has it: a tool call sends one request and never a second.
\* It returns a value only on a success status whose body is JSON, and the
\* value is the decoded body.  Without a response it ends with the transport
\* exception.  On status 400 or 404 with a JSON object it ends with a
\* ValueError carrying the detail of the object, or the text of the body if
\* the object has no detail; on any other status that is not a success with
\* the HTTP status error; on a body that cannot be read as the code reads it
\* with the error of reading it.
C21_ApiOutcomes ==
    /\ tool.sent <= 1
    /\ tool.pc \in {"request", "returned", "raised"} => tool.sent = 1
    /\ tool.pc = "returned"
       => /\ IsSuccess(tool.status) /\ tool.body.kind \in {"object", "list"}
          /\ tool.returned = Decoded(tool.body) /\ tool.raised = NoError
    /\ tool.pc = "raised"
       => /\ tool.returned = None /\ tool.raised # NoError
          /\ tool.status = NoStatus <=> tool.raised \in TransportErrors
          /\ (tool.status \in {400, 404} /\ tool.body.kind = "object")
             => /\ tool.raised = "ValueError"
                /\ tool.message = (IF tool.body.detail # None
                                    THEN tool.body.detail ELSE tool.body.text)
          /\ (tool.status \in {400, 404} /\ tool.body.kind # "object")
             => tool.raised \in {"JSONDecodeError", "AttributeError"}
          /\ (tool.status \in Statuses \ {400, 404} /\ ~IsSuccess(tool.status))
             => tool.raised = "HTTPStatusError"
          /\ IsSuccess(tool.status)
             => tool.body.kind = "text" /\ tool.raised = "JSONDecodeError"
    /\ (tool.pc \in {"returned", "raised"} /\ tool.status # NoStatus
           /\ ~IsSuccess(tool.status))
       => tool.pc = "raised"

\* a second tool call that ended with the ValueError of a 404 carrying the
\* detail of the response
C21_Witness ==
    /\ tool.pc = "raised" /\ tool.calls = 2 /\ tool.name = "execute_query"
    /\ tool.status = 404 /\ tool.raised = "ValueError"
    /\ tool.message = "no such employee" /\ tool.sent = 1

====
